---- MODULE Spec2Model ----
(***************************************************************************)
(* A model of timechange's time-series-to-image pipeline                   *)
(* (web/timechange/transform.py) and of the filter-list handling of its    *)
(* network builder (web/timechange/conv_model.py).                         *)
(*                                                                         *)
(* Numbers.  CSV cells are integers.  Every real number the transforms    *)
(* produce is non-negative and has a rational square (an FFT magnitude     *)
(* of integer data with fft_size in {1,2,3,4}, or a quotient of such), so  *)
(* a real r >= 0 is represented exactly by the reduced fraction <<n, d>>   *)
(* with r * r = n / d.  NaN is the result of a division by zero.           *)
(***************************************************************************)
EXTENDS Integers, Sequences, FiniteSets, TLC

\* ------------------------------------------------------------------ bounds
MaxChannels == 2
MaxSteps == 2
MaxChunk == 2
MaxRows == 2
MaxBlocks == 3
MaxFilters == 2

\* the cell values of the batches handed to extract
Vals == {-1, 0}
\* the fft_size values: those for which 2*cos(2*pi*j/n) is an integer
FftSizes == {1, 2, 3, 4}
\* the method strings tried: the code's names, the documentation's, and a stray one
Methods == {"fft", "spectrogram", "nothing", "frequency", "identity", "bogus"}

\* nan, as the quotient 0/0
NaN == <<0, 0>>

VARIABLES
  \* a caller of extract: its array object, the array as first built, the calls
  \* made so far (arguments and outcome), and the image made from a result
  batch, orig, calls, image,
  \* convert_all_csv: its arguments, the project tree, its locals, its position
  pc, csv, images, args, max_length,
  labels_left, label, files_left, log, written,
  \* conv_model: its config, its locals, its position
  cpc, config, num_classes, num_filters, layers

callerVars == <<batch, orig, calls, image>>
walkerVars == <<pc, csv, images, args, max_length,
                labels_left, label, files_left, log, written>>
builderVars == <<cpc, config, num_classes, num_filters, layers>>
vars == <<callerVars, walkerVars, builderVars>>

\* ------------------------------------------------------------- real numbers
RECURSIVE GCD(_, _)
GCD(a, b) == IF b = 0 THEN a ELSE GCD(b, a % b)

\* the real sqrt(n/d), n >= 0, d > 0, in reduced form
Real(n, d) == LET g == GCD(n, d) IN <<n \div g, d \div g>>

Zero == <<0, 1>>
One == <<1, 1>>

\* a non-negative integer as a real
IntToReal(a) == <<a * a, 1>>

RealLeq(x, y) == x[1] * y[2] <= y[1] * x[2]

\* x / y, as numpy divides: a zero divisor gives nan (or inf), never an exception
RealDiv(x, y) == IF x[2] = 0 \/ y[2] = 0 \/ y[1] = 0 THEN NaN
                 ELSE Real(x[1] * y[2], x[2] * y[1])

\* np.max over one row
RowMax(row) == CHOOSE m \in {row[i] : i \in 1..Len(row)} :
                 \A i \in 1..Len(row) : RealLeq(row[i], m)

\* np.min over one row of integers
IntRowMin(row) == CHOOSE m \in {row[i] : i \in 1..Len(row)} :
                    \A i \in 1..Len(row) : m <= row[i]

\* ------------------------------------------------------------------ arrays
\* the sequence f, with its elements computed once and stored
Stored(f) == f \o <<>>

RECURSIVE SumTo(_, _)
\* s[1] + ... + s[n]
SumTo(s, n) == IF n = 0 THEN 0 ELSE s[n] + SumTo(s, n - 1)

RECURSIVE Flatten(_)
\* ndarray.flatten / the row-major order reshape reads
Flatten(a) == IF a = <<>> THEN <<>> ELSE Head(a) \o Flatten(Tail(a))

\* ndarray.reshape((rows, cols)) of a flat sequence
Reshape(flat, rows, cols) ==
  Stored([r \in 1..rows |-> SubSeq(flat, (r - 1) * cols + 1, r * cols)])

\* np.pad(a, ((0, 0), (0, n)), 'constant', constant_values=0); n < 0 raises
Pad(a, n) == Stored([r \in 1..Len(a) |-> a[r] \o [i \in 1..n |-> 0]])

\* np.stack((a, a, a), axis=2)
Stack3(a) ==
  Stored([r \in 1..Len(a) |-> Stored([c \in 1..Len(a[r]) |-> <<a[r][c], a[r][c], a[r][c]>>])])

\* ndarray.shape of a 3D array
Shape3(a) == <<Len(a), Len(a[1]), Len(a[1][1])>>

\* ------------------------------------------------------- transform.py: fft
\* 2 * cos(2 * pi * j / n) for the fft sizes modelled
Cos2(n, j) == CASE n = 1 -> 2
                [] n = 2 -> <<2, -2>>[j + 1]
                [] n = 3 -> <<2, -1, -1>>[j + 1]
                [] n = 4 -> <<2, 0, -2, 0>>[j + 1]

\* a faulty variant of RfftAbs that keeps all n bins of a full FFT
FftAbsAllBins(chunk, n) ==
  LET x == Stored([t \in 1..n |-> IF t <= Len(chunk) THEN chunk[t] ELSE 0])
      P(k) == SumTo([i \in 1..(n * n) |->
                LET s == (i - 1) \div n
                    t == (i - 1) % n
                IN x[s + 1] * x[t + 1] * Cos2(n, (k * (s - t)) % n)], n * n)
  IN Stored([b \in 1..n |-> Real(P(b - 1), 2)])

\* np.abs(np.fft.rfft(chunk, n)): the chunk cropped or zero-padded to n samples,
\* bins 0..n//2, |X_k|^2 = sum_s sum_t x_s x_t cos(2 pi k (s - t) / n)
RfftAbs(chunk, n) ==
  LET x == Stored([t \in 1..n |-> IF t <= Len(chunk) THEN chunk[t] ELSE 0])
      P(k) == SumTo([i \in 1..(n * n) |->
                LET s == (i - 1) \div n
                    t == (i - 1) % n
                IN x[s + 1] * x[t + 1] * Cos2(n, (k * (s - t)) % n)], n * n)
  IN Stored([b \in 1..(n \div 2 + 1) |-> Real(P(b - 1), 2)])

\* pad_length = chunk_size - (time_series.shape[1] % chunk_size)
PadLength(T, chunk_size) == chunk_size - (T % chunk_size)

\* a faulty variant of FourierMaxValues that leaves a zero maximum in place
FourierMaxValuesNoGuard(rows) == Stored([r \in 1..Len(rows) |-> RowMax(rows[r])])

\* max_values = np.max(time_series, axis=1); np.place(max_values, max_values == 0, 1)
FourierMaxValues(rows) ==
  Stored([r \in 1..Len(rows) |-> IF RowMax(rows[r]) = Zero THEN One ELSE RowMax(rows[r])])

\* simple_fourier(time_series, chunk_size, fft_size).  value is the array
\* returned, arg the caller's array after the call; pad_length, padded_shape,
\* pre and post are the locals the properties read (pre/post: the 2D array
\* before and after the division by max_values).
simple_fourier(time_series, chunk_size, fft_size) ==
  LET num_time_series == Len(time_series)
      pad_length == PadLength(Len(time_series[1]), chunk_size)
      padded == Pad(time_series, pad_length)
      chunks == Reshape(Flatten(padded),
                        (Len(padded) * Len(padded[1])) \div chunk_size, chunk_size)
      mags == Stored([i \in 1..Len(chunks) |-> RfftAbs(chunks[i], fft_size)])
      chunked_shape == <<Len(mags), Len(mags[1])>>
      rows == Reshape(Flatten(mags), num_time_series,
                      (Len(mags) * Len(mags[1])) \div num_time_series)
      max_values == FourierMaxValues(rows)
      normed == Stored([r \in 1..Len(rows) |->
                  Stored([c \in 1..Len(rows[r]) |-> RealDiv(rows[r][c], max_values[r])])])
      back == Reshape(Flatten(normed), chunked_shape[1], chunked_shape[2])
  IN [raised |-> FALSE, ran |-> "simple_fourier", value |-> Stack3(back),
      arg |-> time_series, pad_length |-> pad_length,
      padded_shape |-> <<Len(padded), Len(padded[1])>>,
      pre |-> rows, post |-> normed]

\* ---------------------------------------------------- transform.py: nothing
\* a faulty variant of NothingMaxValues that leaves a zero maximum in place
NothingMaxValuesNoGuard(shifted) ==
  Stored([r \in 1..Len(shifted) |->
    RowMax([c \in 1..Len(shifted[r]) |-> IntToReal(shifted[r][c])])])

\* max_values = np.max(time_series, axis=1)...; max_values[max_values == 0] = 1
NothingMaxValues(shifted) ==
  Stored([r \in 1..Len(shifted) |->
    LET m == RowMax([c \in 1..Len(shifted[r]) |-> IntToReal(shifted[r][c])])
    IN IF m = Zero THEN One ELSE m])

\* time_series -= np.min(time_series, axis=1).reshape(...): the caller's array
\* itself after the in-place subtraction
ShiftInPlace(time_series) ==
  Stored([r \in 1..Len(time_series) |->
    Stored([c \in 1..Len(time_series[r]) |-> time_series[r][c] - IntRowMin(time_series[r])])])

\* nothing(time_series)
nothing(time_series) ==
  LET shifted == ShiftInPlace(time_series)
      max_values == NothingMaxValues(shifted)
      pre == Stored([r \in 1..Len(shifted) |->
               Stored([c \in 1..Len(shifted[r]) |-> IntToReal(shifted[r][c])])])
      normed == Stored([r \in 1..Len(pre) |->
                  Stored([c \in 1..Len(pre[r]) |-> RealDiv(pre[r][c], max_values[r])])])
  IN [raised |-> FALSE, ran |-> "nothing", value |-> Stack3(normed),
      arg |-> shifted, pad_length |-> 0,
      padded_shape |-> <<Len(time_series), Len(time_series[1])>>,
      pre |-> pre, post |-> normed]

\* ------------------------------------------------ transform.py: spectrogram
\* spectrogram(time_series).  scipy.signal.spectrogram is a library routine:
\* for an input shorter than its default segment (256) it uses one segment of
\* the whole input, so Sxx has len // 2 + 1 frequency rows and one time column;
\* its values are kept symbolic, as a function of the bin and the flat input.
spectrogram(time_series) ==
  LET flat == Flatten(time_series)
      Sxx == Stored([f \in 1..(Len(flat) \div 2 + 1) |-> << <<f, flat>> >>])
  IN [raised |-> FALSE, ran |-> "spectrogram", value |-> Stack3(Sxx),
      arg |-> time_series, pad_length |-> 0,
      padded_shape |-> <<Len(time_series), Len(time_series[1])>>,
      pre |-> <<>>, post |-> <<>>]

\* ---------------------------------------------------- transform.py: extract
\* raise Exception("Invalid feature extraction method")
Raise(time_series) ==
  [raised |-> TRUE, ran |-> "none", value |-> <<>>,
   arg |-> time_series, pad_length |-> 0,
   padded_shape |-> <<Len(time_series), Len(time_series[1])>>,
   pre |-> <<>>, post |-> <<>>]

\* a faulty variant of extract that matches the documentation's method names
extractDocNames(time_series, method, chunk_size, fft_size) ==
  IF method = "frequency" THEN simple_fourier(time_series, chunk_size, fft_size)
  ELSE IF method = "spectrogram" THEN spectrogram(time_series)
  ELSE IF method = "identity" THEN nothing(time_series)
  ELSE Raise(time_series)

\* a faulty variant of extract that falls back to the identity transform
extractFallback(time_series, method, chunk_size, fft_size) ==
  IF method = "fft" THEN simple_fourier(time_series, chunk_size, fft_size)
  ELSE IF method = "spectrogram" THEN spectrogram(time_series)
  ELSE nothing(time_series)

\* extract(time_series, method, chunk_size=..., fft_size=...)
extract(time_series, method, chunk_size, fft_size) ==
  IF method = "fft" THEN simple_fourier(time_series, chunk_size, fft_size)
  ELSE IF method = "spectrogram" THEN spectrogram(time_series)
  ELSE IF method = "nothing" THEN nothing(time_series)
  ELSE Raise(time_series)

\* ------------------------------------------- transform.py: the pixel mapping
RECURSIVE FloorSqrt(_, _, _)
\* the largest p in lo..hi with p * p <= q, given lo * lo <= q < (hi + 1) * (hi + 1)
FloorSqrt(q, lo, hi) ==
  IF lo = hi THEN lo
  ELSE LET mid == (lo + hi + 1) \div 2
       IN IF mid * mid <= q THEN FloorSqrt(q, mid, hi) ELSE FloorSqrt(q, lo, mid - 1)

\* x.astype(np.uint8) of a real x >= 0: the fraction is dropped, the integer
\* wraps at 256 (nan is taken to give 0)
Trunc(x) ==
  IF x[2] = 0 THEN 0
  ELSE LET q == x[1] \div x[2]
       IN FloorSqrt(q, 0, IF q < 32767 THEN q ELSE 32767) % 256

\* a faulty variant of ToPixel that rounds to the nearest integer: floor(x + 1/2)
ToPixelRounded(v) ==
  (Trunc(Real(v[1] * 255 * 255 * 4, v[2])) + 1) \div 2

\* (data * 255).astype(np.uint8), one element
ToPixel(v) == Trunc(Real(v[1] * 255 * 255, v[2]))

\* Image.fromarray((data * 255).astype(np.uint8), "RGB") of an extract result:
\* the pixels of a normalized array; those of a spectrogram stay symbolic
ToImage(res) ==
  IF res.ran = "spectrogram" THEN res.value
  ELSE [r \in 1..Len(res.value) |-> [c \in 1..Len(res.value[r]) |->
          [k \in 1..3 |-> ToPixel(res.value[r][c][k])]]]

\* ------------------------------------------------------- a caller of extract
Batches == UNION {[1..n -> [1..t -> Vals]] : n \in 1..MaxChannels, t \in 1..MaxSteps}

\* the values no step of this specification touches
WalkerIdle ==
  /\ pc = "idle" /\ csv = <<>> /\ images = <<>> /\ args = <<>>
  /\ max_length = 0 /\ labels_left = {}
  /\ label = "" /\ files_left = {} /\ log = {} /\ written = {}

BuilderIdle ==
  /\ cpc = "idle" /\ config = <<>> /\ num_classes = 0 /\ num_filters = <<>>
  /\ layers = <<>>

CallerIdle ==
  /\ batch = <<>> /\ orig = <<>> /\ calls = <<>> /\ image = <<>>

InitExtract ==
  /\ batch \in Batches
  /\ orig = batch
  /\ calls = <<>>
  /\ image = <<>>
  /\ WalkerIdle
  /\ BuilderIdle

\* data = extract(batch, m, chunk_size=c, fft_size=f), on a fresh batch
Extract(m, c, f) ==
  /\ calls = <<>>
  /\ LET res == extract(batch, m, c, f)
     IN /\ calls' = <<[method |-> m, chunk_size |-> c, fft_size |-> f, result |-> res]>>
        /\ batch' = res.arg
  /\ UNCHANGED <<orig, image, walkerVars, builderVars>>

\* the same call once more, on the same batch object
ExtractAgain ==
  /\ Len(calls) = 1
  /\ image = <<>>
  /\ LET a == calls[1]
         res == extract(batch, a.method, a.chunk_size, a.fft_size)
     IN /\ calls' = Append(calls, [a EXCEPT !.result = res])
        /\ batch' = res.arg
  /\ UNCHANGED <<orig, image, walkerVars, builderVars>>

\* img = Image.fromarray((data * 255).astype(np.uint8), "RGB") of the first result
Imagize ==
  /\ Len(calls) = 1
  /\ image = <<>>
  /\ ~calls[1].result.raised
  /\ image' = ToImage(calls[1].result)
  /\ UNCHANGED <<batch, orig, calls, walkerVars, builderVars>>

NextExtract ==
  \/ \E m \in Methods, c \in 1..MaxChunk, f \in FftSizes :
       /\ (m # "fft" => c = 1 /\ f = 1)
       /\ Extract(m, c, f)
  \/ ExtractAgain
  \/ Imagize

SpecExtract == InitExtract /\ [][NextExtract]_vars

\* --------------------------------------------------- properties of extract
Normalizing == {"simple_fourier", "nothing"}

\* C1 (as claimed): the frequency transform pads T to the smallest multiple of
\* chunk_size that is >= T, with a pad amount that is never negative; so a T
\* that is already a multiple is left as it is.
C1_SmallestMultiple ==
  \A i \in 1..Len(calls) :
    calls[i].method = "fft" =>
      LET T == Len(orig[1])
          C == calls[i].chunk_size
          L == calls[i].result.padded_shape[2]
      IN /\ calls[i].result.pad_length >= 0
         /\ L % C = 0
         /\ L >= T
         /\ L - C < T

\* C2 (as claimed): "frequency", "spectrogram" and "identity" select the
\* frequency, spectrogram and identity transforms, and none of them raises.
C2_DocNamesDispatch ==
  \A i \in 1..Len(calls) :
    LET c == calls[i]
    IN /\ c.method = "frequency" => ~c.result.raised /\ c.result.ran = "simple_fourier"
       /\ c.method = "spectrogram" => ~c.result.raised /\ c.result.ran = "spectrogram"
       /\ c.method = "identity" => ~c.result.raised /\ c.result.ran = "nothing"

\* C2 (amended): the names extract matches are "fft", "spectrogram" and
\* "nothing": they select the frequency, spectrogram and identity transforms
\* and return an array; "frequency" and "identity" raise and run no transform.
C2_Dispatch ==
  \A i \in 1..Len(calls) :
    LET c == calls[i]
    IN /\ c.method = "fft" => ~c.result.raised /\ c.result.ran = "simple_fourier"
       /\ c.method = "spectrogram" => ~c.result.raised /\ c.result.ran = "spectrogram"
       /\ c.method = "nothing" => ~c.result.raised /\ c.result.ran = "nothing"
       /\ c.method \in {"frequency", "identity"} =>
            c.result.raised /\ c.result.ran = "none"
       /\ ~c.result.raised => Len(c.result.value) >= 1

C2_Witness ==
  /\ Len(calls) = 1
  /\ calls[1].method = "fft"
  /\ calls[1].result.ran = "simple_fourier"

\* ceil(T / C)
CeilDiv(T, C) == (T + C - 1) \div C

C5_RowNormalized ==
  \A i \in 1..Len(calls) :
    calls[i].result.ran \in Normalizing =>
      LET pre == calls[i].result.pre
          post == calls[i].result.post
      IN /\ Len(post) = Len(pre)
         /\ \A r \in 1..Len(pre) :
              LET m == RowMax(pre[r])
              IN /\ Len(post[r]) = Len(pre[r])
                 /\ \A c \in 1..Len(pre[r]) :
                      /\ post[r][c][2] # 0
                      /\ RealLeq(Zero, post[r][c])
                      /\ RealLeq(post[r][c], One)
                      /\ post[r][c] = RealDiv(pre[r][c], IF m = Zero THEN One ELSE m)
                      /\ (m # Zero /\ pre[r][c] = m) => post[r][c] = One
                      /\ m = Zero => post[r][c] = Zero
         /\ Flatten(calls[i].result.value) =
              [j \in 1..Len(Flatten(post)) |->
                 <<Flatten(post)[j], Flatten(post)[j], Flatten(post)[j]>>]

C5_Witness ==
  /\ Len(calls) = 1
  /\ calls[1].method = "fft"
  /\ Len(calls[1].result.pre) = 2
  /\ RowMax(calls[1].result.pre[1]) = Zero
  /\ RowMax(calls[1].result.pre[2]) # Zero
  /\ \E c \in 1..Len(calls[1].result.post[2]) :
       calls[1].result.post[2][c] \notin {Zero, One}

\* the pixels of the image and the values they were made from, side by side
PixelPairs ==
  IF image = <<>> \/ calls[1].result.ran \notin Normalizing THEN {}
  ELSE {<<image[r][c][k], calls[1].result.value[r][c][k]>> :
          r \in 1..Len(image), c \in 1..Len(image[1]), k \in 1..3}

\* C8 (as claimed): every pixel is round(v * 255), the integer nearest to
\* v * 255; a value halfway between two integers goes up, or to the even one.
C8_PixelRounded ==
  \A pv \in PixelPairs :
    LET p == pv[1]
        n == pv[2][1] * 255 * 255 * 4
        d == pv[2][2]
        lo == (2 * p - 1) * (2 * p - 1) * d
        hi == (2 * p + 1) * (2 * p + 1) * d
    IN /\ p \in 0..255
       /\ \/ (p = 0 \/ lo < n) /\ n < hi
          \/ p >= 1 /\ lo = n
          \/ hi = n /\ p % 2 = 0

\* C8 (amended): every pixel is v * 255 with its fraction dropped (astype(uint8)
\* truncates): the integer p with p <= v * 255 < p + 1, in all three channels.
C8_PixelTruncated ==
  /\ image # <<>> => Len(image) = Len(calls[1].result.value)
                     /\ Len(image[1]) = Len(calls[1].result.value[1])
  /\ \A pv \in PixelPairs :
       LET p == pv[1]
           n == pv[2][1] * 255 * 255
           d == pv[2][2]
       IN /\ p \in 0..255
          /\ p * p * d <= n
          /\ n < (p + 1) * (p + 1) * d

C8_Witness ==
  /\ <<127, <<1, 4>> >> \in PixelPairs
  /\ <<255, One>> \in PixelPairs

\* C10 (as claimed): a call to extract leaves the caller's batch as it was, and
\* the same call made twice on the same batch object returns the same array.
C10_Pure ==
  /\ calls # <<>> => batch = orig
  /\ Len(calls) = 2 => calls[2].result.value = calls[1].result.value

\* -------------------------------------------- transform.py: convert_all_csv
\* The project tree.  csv and images are records [dirs, files]: the label
\* folders, and the files as records [label, name, ...]; a file name is the
\* pair <<stem, extension>>.
CsvLabels == {"a", "b"}
\* the places a csv file may be at
CsvSlots == {<<"a", "1">>, <<"a", "2">>, <<"b", "1">>}
\* the column names of every csv file, in file order
Header == << <<"x">>, <<"y">> >>
\* the columns argument, as a string of characters
ColumnArgs == {<<>>, <<"x">>, <<"y", ",", "x">>}
\* the method, chunk_size and fft_size arguments the walker is run with
WalkerMethods == {"fft", "spectrogram", "nothing", "bogus"}
WalkerFftSizes == {4}
\* what images/ may hold from an earlier run
PriorImages ==
  {[dirs |-> {}, files |-> {}],
   [dirs |-> {"a", "old"},
    files |-> {[label |-> "a", name |-> <<"1", "png">>, data |-> <<>>],
               [label |-> "a", name |-> <<"9", "png">>, data |-> <<>>],
               [label |-> "old", name |-> <<"9", "png">>, data |-> <<>>]}]}

\* the cell of column col in data row i of a csv file
Cell(col, i) == IF col = <<"x">> THEN 0 - (i % 2) ELSE 0

RECURSIVE Split(_, _)
\* str.split(sep): "" gives [""]
Split(str, sep) ==
  IF str = <<>> THEN << <<>> >>
  ELSE IF Head(str) = sep THEN << <<>> >> \o Split(Tail(str), sep)
  ELSE LET rest == Split(Tail(str), sep)
       IN << <<Head(str)>> \o Head(rest) >> \o Tail(rest)

\* columns = columns.split(","); if columns == [""]: columns = None
\* (None: the empty list stands for it, all columns are read)
ParseColumns(columns) ==
  IF Split(columns, ",") = << <<>> >> THEN <<>> ELSE Split(columns, ",")

\* len(csv_file_handle.readlines()): the header line and one line per data row
LineCount(file) == 1 + file.rows

\* pandas.read_csv(path, usecols=usecols).as_matrix().T: one row per column
\* read, in file order, one column per data row
ReadCsv(file, usecols) ==
  LET InUse(c) == usecols = <<>> \/ \E k \in 1..Len(usecols) : usecols[k] = c
      sel == SelectSeq(Header, InUse)
  IN Stored([k \in 1..Len(sel) |-> Stored([i \in 1..file.rows |-> Cell(sel[k], i)])])

\* a faulty variant of ScanMax that forgets the header line
ScanMaxWithHeader(longest, lines) == IF lines > longest THEN lines ELSE longest

\* max_length = max(max_length, len(csv_file_handle.readlines()) - 1)
ScanMax(longest, lines) == IF lines - 1 > longest THEN lines - 1 ELSE longest

\* path.splitext(csv_file.name)[0]
SplitExt0(name) == name[1]

\* "{}.png".format(stem)
PngName(name) == <<SplitExt0(name), "png">>

\* a faulty variant of RmTree that leaves the folder in place
RmTreeSkipped(tree, l) == tree

\* shutil.rmtree(label.path): the folder and the files in it
RmTree(tree, l) ==
  [dirs |-> tree.dirs \ {l}, files |-> {f \in tree.files : f.label # l}]

FilesIn(tree, l) == {f \in tree.files : f.label = l}

CsvTrees ==
  {[dirs |-> D,
    files |-> {[label |-> sl[1], name |-> <<sl[2], "csv">>, rows |-> r[sl]] :
                 sl \in {x \in CsvSlots : r[x] > 0}}] :
     D \in SUBSET CsvLabels,
     r \in [CsvSlots -> 0..MaxRows]}

Init ==
  /\ csv \in {t \in CsvTrees : \A f \in t.files : f.label \in t.dirs}
  /\ images \in PriorImages
  /\ args \in {a \in [method : WalkerMethods, chunk_size : 1..MaxChunk,
                      fft_size : WalkerFftSizes, columns : ColumnArgs] :
                 a.method # "fft" => a.chunk_size = 1}
  /\ pc = "clear"
  /\ max_length = -1
  /\ labels_left = images.dirs
  /\ label = ""
  /\ files_left = {}
  /\ log = {}
  /\ written = {}
  /\ CallerIdle
  /\ BuilderIdle

\* for label in os.scandir(images): shutil.rmtree(label.path)
ClearLabel ==
  /\ pc = "clear"
  /\ \E l \in labels_left :
       /\ images' = RmTree(images, l)
       /\ labels_left' = labels_left \ {l}
  /\ UNCHANGED <<pc, csv, args, max_length, label, files_left, log, written>>
  /\ UNCHANGED <<callerVars, builderVars>>

\* max_length = -1, and into the first loop over the labels of csv/
ClearDone ==
  /\ pc = "clear"
  /\ labels_left = {}
  /\ pc' = "scan"
  /\ max_length' = -1
  /\ labels_left' = csv.dirs
  /\ UNCHANGED <<csv, images, args, label, files_left, log, written>>
  /\ UNCHANGED <<callerVars, builderVars>>

\* for label in os.scandir(csv): the next label of the first pass
ScanLabel ==
  /\ pc = "scan"
  /\ files_left = {}
  /\ \E l \in labels_left :
       /\ label' = l
       /\ files_left' = FilesIn(csv, l)
       /\ labels_left' = labels_left \ {l}
  /\ UNCHANGED <<pc, csv, images, args, max_length, log, written>>
  /\ UNCHANGED <<callerVars, builderVars>>

\* for csv_file in os.scandir(label.path): count its lines
ScanFile ==
  /\ pc = "scan"
  /\ \E f \in files_left :
       /\ max_length' = ScanMax(max_length, LineCount(f))
       /\ files_left' = files_left \ {f}
  /\ UNCHANGED <<pc, csv, images, args, labels_left, label, log, written>>
  /\ UNCHANGED <<callerVars, builderVars>>

\* the first pass is over: into the second loop over the labels of csv/
ScanDone ==
  /\ pc = "scan"
  /\ files_left = {}
  /\ labels_left = {}
  /\ pc' = "convert"
  /\ labels_left' = csv.dirs
  /\ UNCHANGED <<csv, images, args, max_length, label, files_left, log, written>>
  /\ UNCHANGED <<callerVars, builderVars>>

\* os.mkdir(images/<label>): raises FileExistsError if the folder is there
MakeLabel ==
  /\ pc = "convert"
  /\ files_left = {}
  /\ \E l \in labels_left :
       IF l \in images.dirs
       THEN /\ pc' = "FileExistsError"
            /\ UNCHANGED <<images, label, files_left, labels_left>>
       ELSE /\ images' = [images EXCEPT !.dirs = @ \cup {l}]
            /\ label' = l
            /\ files_left' = FilesIn(csv, l)
            /\ labels_left' = labels_left \ {l}
            /\ pc' = pc
  /\ UNCHANGED <<csv, args, max_length, log, written>>
  /\ UNCHANGED <<callerVars, builderVars>>

\* one csv file of the second pass: read, pad to max_length (np.pad raises
\* ValueError on a negative amount), extract (its exception is not caught), make
\* the image, save it.  log records each call of extract, written each file saved.
ConvertFile ==
  /\ pc = "convert"
  /\ \E f \in files_left :
       LET data == ReadCsv(f, ParseColumns(args.columns))
           pad == max_length - Len(data[1])
       IN IF pad < 0
          THEN /\ pc' = "ValueError"
               /\ UNCHANGED <<images, files_left, log, written>>
          ELSE LET padded == Pad(data, pad)
                   res == extract(padded, args.method, args.chunk_size, args.fft_size)
                   png == [label |-> label, name |-> PngName(f.name)]
               IN /\ log' = log \cup {[label |-> label, name |-> f.name, pad |-> pad,
                                       shape |-> <<Len(padded), Len(padded[1])>>,
                                       max_length |-> max_length,
                                       raised |-> res.raised, ran |-> res.ran]}
                  /\ IF res.raised
                     THEN /\ pc' = "Exception"
                          /\ UNCHANGED <<images, files_left, written>>
                     ELSE /\ images' =
                               [images EXCEPT !.files =
                                  {g \in @ : g.label # png.label \/ g.name # png.name}
                                    \cup {[label |-> png.label, name |-> png.name,
                                           data |-> ToImage(res)]}]
                          /\ written' = written \cup {png}
                          /\ files_left' = files_left \ {f}
                          /\ pc' = pc
  /\ UNCHANGED <<csv, args, max_length, labels_left, label>>
  /\ UNCHANGED <<callerVars, builderVars>>

\* both loops are over: convert_all_csv returns
ConvertDone ==
  /\ pc = "convert"
  /\ files_left = {}
  /\ labels_left = {}
  /\ pc' = "done"
  /\ UNCHANGED <<csv, images, args, max_length, labels_left, label, files_left,
                 log, written>>
  /\ UNCHANGED <<callerVars, builderVars>>

Next ==
  \/ ClearLabel
  \/ ClearDone
  \/ ScanLabel
  \/ ScanFile
  \/ ScanDone
  \/ MakeLabel
  \/ ConvertFile
  \/ ConvertDone

Spec == Init /\ [][Next]_vars

\* ---------------------------------------- properties of convert_all_csv
Supported == {"fft", "spectrogram", "nothing"}

\* C3: for a method that is not a supported name, every call of extract raises
\* and runs no transform; convert_all_csv stops with that error, and no image
\* is written (images/ holds nothing but what an earlier run left, if that).
C3_UnsupportedRaises ==
  args.method \notin Supported =>
    /\ \A e \in log : e.raised /\ e.ran = "none"
    /\ log # {} => pc = "Exception"
    /\ written = {}
    /\ images.files \subseteq UNION {p.files : p \in PriorImages}

C3_Witness ==
  /\ args.method = "bogus"
  /\ pc = "Exception"
  /\ \E e \in log : e.raised
  /\ images.dirs # {}

\* the largest data-row count over all csv files of all labels (-1: no file)
DatasetMax ==
  IF csv.files = {} THEN -1
  ELSE CHOOSE m \in {f.rows : f \in csv.files} : \A f \in csv.files : f.rows <= m

\* C6: when a file is transformed the maximum data-row count over all files of
\* all labels has been computed; every sample is padded, by an amount >= 0, to
\* exactly that many columns before extract is called, so all batches of a run
\* have the same column count; no run stops on a negative pad (ValueError).
C6_DatasetPadding ==
  /\ pc \in {"convert", "done"} => max_length = DatasetMax
  /\ \A e \in log :
       /\ e.max_length = DatasetMax
       /\ e.pad >= 0
       /\ e.shape[2] = DatasetMax
  /\ \A e1 \in log, e2 \in log : e1.shape[2] = e2.shape[2]
  /\ pc \notin {"ValueError", "FileExistsError"}
  /\ pc = "Exception" => \E e \in log : e.raised

C6_Witness ==
  /\ pc = "done"
  /\ \E e1 \in log, e2 \in log :
       /\ e1.label # e2.label
       /\ e1.pad = 0
       /\ e2.pad > 0
       /\ e1.shape[2] = 2
       /\ e2.shape[2] = 2

\* C7: when convert_all_csv has returned, the label folders of images/ are
\* those of csv/, and images/<label>/ holds exactly one <sample>.png, made by
\* this run, per file of csv/<label>/; nothing of an earlier run is left.
C7_ImagesRebuilt ==
  pc = "done" =>
    /\ images.dirs = csv.dirs
    /\ {<<g.label, g.name>> : g \in images.files} =
         {<<f.label, <<f.name[1], "png">> >> : f \in csv.files}
    /\ Cardinality(images.files) = Cardinality(csv.files)
    /\ written = {[label |-> g.label, name |-> g.name] : g \in images.files}
    /\ \A g \in images.files : g.data # <<>>

C7_Witness ==
  /\ pc = "done"
  /\ csv.dirs = {"a", "b"}
  /\ Cardinality(images.files) = 3

\* ---------------------------------------------- conv_model.py: conv_model
\* Python values that are an int or a list
IntV(i) == [type |-> "int", val |-> i]
ListV(l) == [type |-> "list", val |-> l]

\* int * int
IntMul(a, b) == IntV(a * b)

\* list.extend(iterable): an int is not iterable, TypeError
ListExtend(l, v) ==
  IF v.type = "list" THEN [raised |-> FALSE, val |-> l \o v.val]
  ELSE [raised |-> TRUE, val |-> l]

Digits == <<"0", "1", "2", "3", "4", "5", "6", "7", "8", "9">>

RECURSIVE ParseInt(_)
\* int(f) of a string of decimal digits
ParseInt(str) ==
  IF str = <<>> THEN 0
  ELSE ParseInt(SubSeq(str, 1, Len(str) - 1)) * 10
         + (CHOOSE d \in 0..9 : Digits[d + 1] = str[Len(str)])

\* num_filters = [int(f) for f in num_filters.split(',')]
ParseFilters(str) ==
  LET parts == Split(str, ",")
  IN Stored([k \in 1..Len(parts) |-> ParseInt(parts[k])])

\* the filter-size strings tried: 1..MaxFilters sizes, each "8" or "16"
RECURSIVE FilterStrings(_)
FilterStrings(n) ==
  IF n = 1 THEN {<<"8">>, <<"1", "6">>}
  ELSE FilterStrings(n - 1)
         \cup {str \o <<",">> \o t : str \in FilterStrings(n - 1), t \in {<<"8">>, <<"1", "6">>}}

\* one convolutional block: Convolution2D(filters, 3, 3), ZeroPadding2D, MaxPooling2D
Block(filters) ==
  <<[layer |-> "Convolution2D", units |-> filters],
    [layer |-> "ZeroPadding2D", units |-> 1],
    [layer |-> "MaxPooling2D", units |-> 2]>>

InitConvModel ==
  /\ config \in [num_block : 1..MaxBlocks, num_filters : FilterStrings(MaxFilters)]
  /\ num_classes \in 2..3
  /\ cpc = "parse"
  /\ num_filters = <<>>
  /\ layers = <<>>
  /\ CallerIdle
  /\ WalkerIdle

\* num_blocks = config['num_block']; the filter list is parsed
ParseConfig ==
  /\ cpc = "parse"
  /\ num_filters' = ParseFilters(config.num_filters)
  /\ cpc' = "extend"
  /\ UNCHANGED <<config, num_classes, layers, callerVars, walkerVars>>

\* if len(num_filters) < num_blocks:
\*     num_filters.extend(num_filters[-1] * (num_blocks - len(num_filters)))
ExtendFilters ==
  /\ cpc = "extend"
  /\ IF Len(num_filters) < config.num_block
     THEN LET r == ListExtend(num_filters,
                              IntMul(num_filters[Len(num_filters)],
                                     config.num_block - Len(num_filters)))
          IN /\ num_filters' = r.val
             /\ cpc' = IF r.raised THEN "TypeError" ELSE "first"
     ELSE /\ cpc' = "first"
          /\ UNCHANGED num_filters
  /\ UNCHANGED <<config, num_classes, layers, callerVars, walkerVars>>

\* the initial block, from num_filters[0]
AddFirstBlock ==
  /\ cpc = "first"
  /\ layers' = Block(num_filters[1])
  /\ cpc' = "blocks"
  /\ UNCHANGED <<config, num_classes, num_filters, callerVars, walkerVars>>

\* for layer in range(1, num_blocks): the block of num_filters[layer], which
\* raises IndexError past the end of the list
AddBlock ==
  /\ cpc = "blocks"
  /\ Len(layers) \div 3 < config.num_block
  /\ LET layer == Len(layers) \div 3
     IN IF layer + 1 > Len(num_filters)
        THEN cpc' = "IndexError" /\ UNCHANGED layers
        ELSE cpc' = cpc /\ layers' = layers \o Block(num_filters[layer + 1])
  /\ UNCHANGED <<config, num_classes, num_filters, callerVars, walkerVars>>

\* Flatten, Dense(64), Dropout, Dense(num_classes, final_activation), compile
Finish ==
  /\ cpc = "blocks"
  /\ Len(layers) \div 3 = config.num_block
  /\ LET final_activation == IF num_classes = 2 THEN "sigmoid" ELSE "softmax"
         loss_measure == IF num_classes = 2 THEN "binary_crossentropy"
                         ELSE "categorical_crossentropy"
     IN layers' = layers \o
          <<[layer |-> "Flatten", units |-> 0],
            [layer |-> "Dense", units |-> 64],
            [layer |-> "Dropout", units |-> 0],
            [layer |-> final_activation, units |-> num_classes],
            [layer |-> loss_measure, units |-> 0]>>
  /\ cpc' = "done"
  /\ UNCHANGED <<config, num_classes, num_filters, callerVars, walkerVars>>

NextConvModel ==
  \/ ParseConfig
  \/ ExtendFilters
  \/ AddFirstBlock
  \/ AddBlock
  \/ Finish

SpecConvModel == InitConvModel /\ [][NextConvModel]_vars

\* the list the claim describes: parsed, then its last value repeated up to n entries
Extended(parsed, n) ==
  [k \in 1..n |-> IF k <= Len(parsed) THEN parsed[k] ELSE parsed[Len(parsed)]]

\* C9 (as claimed): when the parsed filter list has fewer than num_blocks
\* entries, conv_model extends it with its last value to exactly num_blocks
\* entries, earlier entries unchanged, and the builder does not fail: every
\* block 0..num_blocks-1 gets its filter count.
C9_FiltersExtended ==
  LET parsed == ParseFilters(config.num_filters)
  IN (cpc \notin {"parse", "extend"} /\ Len(parsed) < config.num_block) =>
       /\ cpc \notin {"TypeError", "IndexError"}
       /\ num_filters = Extended(parsed, config.num_block)
       /\ cpc = "done" =>
            \A b \in 1..config.num_block :
              layers[3 * (b - 1) + 1].units = num_filters[b]

====
